---- MODULE Spec2Model ----
(***************************************************************************)
(* A model of the columnar buffers of this repository: the region          *)
(* allocator Region<T> (src/src/region.rs) and the buffers built on it,     *)
(* Region<u64>, StringBuf, VecBuf<u64> and VecBuf<Vec<u64>>                 *)
(* (src/src/lib.rs).                                                        *)
(*                                                                         *)
(* A Vec<T> is a record [id, cap, data]: id names the heap allocation       *)
(* behind it (0 when the Vec owns none), cap is its capacity and data its   *)
(* elements.  A behaviour builds one buffer, chosen by kind; the other      *)
(* buffers stay as constructed.                                             *)
(***************************************************************************)
EXTENDS Integers, Sequences, FiniteSets, TLC

\* ------------------------------------------------------------------ bounds
MaxLimit == 4
MaxCount == 2
MaxElems == 3
MaxHint == 1
MaxStrs == 3
MaxBytes == 5
MaxSeqs == 2
MaxVecElems == 2
MaxOuter == 2
MaxInner == 2
MaxNestElems == 2

\* ------------------------------------------------------- program constants
U64Limit == 1000000
StringLimit == 16000000
VecFanOut == 8

VARIABLES kind, region, hist, cleared, maxReq, sb, strs, vb, seqs, nb, nseqs, iters

vars == <<kind, region, hist, cleared, maxReq, sb, strs, vb, seqs, nb, nseqs, iters>>

Indices(n) == 0..(n - 1)

Min(a, b) == IF a < b THEN a ELSE b
Max(a, b) == IF a > b THEN a ELSE b

Values == {0, 1}
Bytes == {97, 98}

RECURSIVE SeqsUpTo(_, _)
SeqsUpTo(S, n) ==
    IF n = 0 THEN {<<>>}
    ELSE LET shorter == SeqsUpTo(S, n - 1)
         IN shorter \cup {Append(s, x) : s \in shorter, x \in S}

RECURSIVE Flatten(_)
Flatten(ss) == IF ss = <<>> THEN <<>> ELSE Head(ss) \o Flatten(Tail(ss))

RECURSIVE SumLens(_)
SumLens(vs) == IF vs = <<>> THEN 0 ELSE Len(Head(vs).data) + SumLens(Tail(vs))

\* --------------------------------------------------------------- Vec<T>
EmptyVec == [id |-> 0, cap |-> 0, data |-> <<>>]

FreshId(used) == CHOOSE n \in 1..(Cardinality(used) + 1) : n \notin used

VecWithCapacity(n, used) ==
    [id |-> IF n = 0 THEN 0 ELSE FreshId(used), cap |-> n, data |-> <<>>]

\* Vec::push / Vec::extend_from_slice: in place while the capacity suffices,
\* otherwise the allocation is grown, which moves it.
VecExtend(v, items, used) ==
    LET need == Len(v.data) + Len(items)
    IN IF need <= v.cap
       THEN [v EXCEPT !.data = @ \o items]
       ELSE [id |-> FreshId(used), cap |-> Max(2 * v.cap, need), data |-> v.data \o items]

VecGet(v, j) ==
    IF j >= 0 /\ j < Len(v.data)
    THEN [ok |-> TRUE, val |-> v.data[j + 1]]
    ELSE [ok |-> FALSE, val |-> -1]

VecSlice(v, start, end) ==
    IF 0 <= start /\ start <= end /\ end <= Len(v.data)
    THEN [ok |-> TRUE, val |-> SubSeq(v.data, start + 1, end)]
    ELSE [ok |-> FALSE, val |-> <<>>]

\* --------------------------------------------------------------- Region<T>
RECURSIVE Pow2From(_, _)
Pow2From(p, n) == IF p >= n THEN p ELSE Pow2From(2 * p, n)

NextPowerOfTwo(n) == Pow2From(1, n)

UsedIds(r) == {r.local.id} \cup {r.stash[k].id : k \in 1..Len(r.stash)}

WithLimit(limit) == [local |-> EmptyVec, stash |-> <<>>, limit |-> limit]

\* Faulty variant of NextLen: the doubling is not capped at limit.
NextLenUncapped(r, count) ==
    Max(count, NextPowerOfTwo(r.local.cap + 1))

\* Faulty variant of NextLen: doubles from capacity, not capacity + 1.
NextLenSameCap(r, count) ==
    Max(count, Min(NextPowerOfTwo(r.local.cap), r.limit))

NextLen(r, count) ==
    Max(count, Min(NextPowerOfTwo(r.local.cap + 1), r.limit))

\* Faulty variant of Reserve: compares count with the capacity, not the spare capacity.
ReserveIgnoringLen(r, count) ==
    IF count > r.local.cap
    THEN LET new_local == VecWithCapacity(NextLen(r, count), UsedIds(r))
         IN IF r.local.data = <<>>
            THEN [r EXCEPT !.local = new_local]
            ELSE [r EXCEPT !.stash = Append(@, r.local), !.local = new_local]
    ELSE r

Reserve(r, count) ==
    IF count > r.local.cap - Len(r.local.data)
    THEN LET new_local == VecWithCapacity(NextLen(r, count), UsedIds(r))
         IN IF r.local.data = <<>>
            THEN [r EXCEPT !.local = new_local]
            ELSE [r EXCEPT !.stash = Append(@, r.local), !.local = new_local]
    ELSE r

WithLimitAndCapacity(limit, count) == Reserve(WithLimit(limit), count)

RegionCopy(r, t) ==
    LET r1 == Reserve(r, 1)
    IN [r1 EXCEPT !.local = VecExtend(r1.local, <<t>>, UsedIds(r1))]

\* Faulty variant of RegionCopySlice: reserves item by item, not for the whole slice.
RECURSIVE RegionCopySliceByItem(_, _)
RegionCopySliceByItem(r, items) ==
    IF items = <<>> THEN r
    ELSE RegionCopySliceByItem(RegionCopy(r, Head(items)), Tail(items))

RegionCopySlice(r, items) ==
    LET r1 == Reserve(r, Len(items))
    IN [r1 EXCEPT !.local = VecExtend(r1.local, items, UsedIds(r1))]

\* The scan shared by idx and slice: the segment that owns position i, and
\* the position inside it.
\* Faulty variant of Scan: >= where the code has >.
RECURSIVE ScanInclusive(_, _, _, _)
ScanInclusive(r, i, k, l) ==
    IF k > Len(r.stash)
    THEN [seg |-> r.local, off |-> i - l, k |-> k]
    ELSE IF Len(r.stash[k].data) + l >= i
         THEN [seg |-> r.stash[k], off |-> i - l, k |-> k]
         ELSE ScanInclusive(r, i, k + 1, l + Len(r.stash[k].data))

RECURSIVE Scan(_, _, _, _)
Scan(r, i, k, l) ==
    IF k > Len(r.stash)
    THEN [seg |-> r.local, off |-> i - l, k |-> k]
    ELSE IF Len(r.stash[k].data) + l > i
         THEN [seg |-> r.stash[k], off |-> i - l, k |-> k]
         ELSE Scan(r, i, k + 1, l + Len(r.stash[k].data))

Locate(r, i) == Scan(r, i, 1, 0)

RegionIdx(r, i) ==
    LET at == Locate(r, i) IN VecGet(at.seg, at.off)

RegionSlice(r, start, end) ==
    LET at == Locate(r, start) IN VecSlice(at.seg, at.off, end - (start - at.off))

\* Faulty variant of RegionClear: the stash is kept.
RegionClearLocalOnly(r) ==
    [r EXCEPT !.local = [@ EXCEPT !.data = <<>>]]

RegionClear(r) ==
    [r EXCEPT !.local = [@ EXCEPT !.data = <<>>], !.stash = <<>>]

\* Faulty variant of RegionLen: the stash is not counted.
RegionLenLocalOnly(r) == Len(r.local.data)

RegionLen(r) == Len(r.local.data) + SumLens(r.stash)

\* ---------------------------------------------------------------- StringBuf
SbWithCapacity(s) ==
    [idx |-> <<>>, data |-> WithLimitAndCapacity(StringLimit, s)]

SbCopy(b, c) ==
    LET data == RegionCopySlice(b.data, c)
    IN [idx |-> Append(b.idx, RegionLen(data)), data |-> data]

\* Faulty variant of SbStart: index 1 starts at 0 too.
SbStartSkewed(b, i) == IF i <= 1 THEN 0 ELSE b.idx[i]

SbStart(b, i) == IF i = 0 THEN 0 ELSE b.idx[i]

SbEnd(b, i) == b.idx[i + 1]

SbIdx(b, i) == RegionSlice(b.data, SbStart(b, i), SbEnd(b, i))

SbLen(b) == Len(b.idx)

\* -------------------------------------------------------------- VecBuf<u64>
VbWithCapacity(s) ==
    [idx |-> <<>>, buf |-> WithLimitAndCapacity(U64Limit, s * VecFanOut)]

RECURSIVE CopyEach(_, _)
CopyEach(r, c) ==
    IF c = <<>> THEN r ELSE CopyEach(RegionCopy(r, Head(c)), Tail(c))

\* Faulty variant of VbCopy: records the active segment's length, not len().
VbCopyLocalLen(b, c) ==
    LET buf == CopyEach(b.buf, c)
    IN [idx |-> Append(b.idx, Len(buf.local.data)), buf |-> buf]

VbCopy(b, c) ==
    LET buf == CopyEach(b.buf, c)
    IN [idx |-> Append(b.idx, RegionLen(buf)), buf |-> buf]

VbIdx(b, i) ==
    [current |-> IF i = 0 THEN 0 ELSE b.idx[i], end |-> b.idx[i + 1]]

VbLen(b) == Len(b.idx)

\* IdxIter::next over a Region<u64>: the item, if any, and the iterator after.
\* Faulty variant of IterNext: stops one item before end.
IterNextStopsEarly(r, it) ==
    IF it.current + 1 >= it.end
    THEN [some |-> FALSE, item |-> -1, it |-> it]
    ELSE [some |-> TRUE, item |-> RegionIdx(r, it.current).val,
          it |-> [it EXCEPT !.current = @ + 1]]

IterNext(r, it) ==
    IF it.current = it.end
    THEN [some |-> FALSE, item |-> -1, it |-> it]
    ELSE [some |-> TRUE, item |-> RegionIdx(r, it.current).val,
          it |-> [it EXCEPT !.current = @ + 1]]

\* --------------------------------------------------------- VecBuf<Vec<u64>>
NbWithCapacity(s) ==
    [idx |-> <<>>, buf |-> VbWithCapacity(s * VecFanOut)]

RECURSIVE NbCopyEach(_, _)
NbCopyEach(b, c) ==
    IF c = <<>> THEN b ELSE NbCopyEach(VbCopy(b, Head(c)), Tail(c))

NbCopy(b, c) ==
    LET buf == NbCopyEach(b.buf, c)
    IN [idx |-> Append(b.idx, VbLen(buf)), buf |-> buf]

NbIdx(b, i) ==
    [current |-> IF i = 0 THEN 0 ELSE b.idx[i], end |-> b.idx[i + 1]]

NbLen(b) == Len(b.idx)

\* IdxIter::next over a VecBuf<u64>: the item is itself an IdxIter.
NbIterNext(b, it) ==
    IF it.current = it.end
    THEN [some |-> FALSE, item |-> [current |-> 0, end |-> 0], it |-> it]
    ELSE [some |-> TRUE, item |-> VbIdx(b, it.current),
          it |-> [it EXCEPT !.current = @ + 1]]

\* ------------------------------------------------------------------ state
\* kind     which buffer the behaviour builds
\* region   a Region<u64>;  hist: the values appended to it since it was
\*          constructed or last cleared;  cleared: clear() has been called;
\*          maxReq: the largest count passed to reserve so far
\* sb       a StringBuf;  strs: the strings copied into it
\* vb       a VecBuf<u64>;  seqs: the sequences copied into it
\* nb       a VecBuf<Vec<u64>>;  nseqs: the sequences copied into it
\* iters    the IdxIter values the caller holds on vb or nb: for each, the
\*          index i it was made for, its fields current and end, the items
\*          next() has returned (out) and whether next() has returned None
NoIter == [live |-> FALSE, i |-> 0, current |-> 0, end |-> 0, out |-> <<>>, done |-> FALSE]

Slots == {1, 2}

InitRegion ==
    /\ kind = "region"
    /\ \E limit \in 0..MaxLimit, count \in 0..MaxCount :
          /\ region = WithLimitAndCapacity(limit, count)
          /\ maxReq = count
    /\ sb = SbWithCapacity(0) /\ vb = VbWithCapacity(0) /\ nb = NbWithCapacity(0)

InitString ==
    /\ kind = "string"
    /\ \E s \in 0..MaxHint : sb = SbWithCapacity(s)
    /\ region = WithLimit(0) /\ maxReq = 0
    /\ vb = VbWithCapacity(0) /\ nb = NbWithCapacity(0)

InitVec ==
    /\ kind = "vec"
    /\ \E s \in 0..MaxHint : vb = VbWithCapacity(s)
    /\ region = WithLimit(0) /\ maxReq = 0
    /\ sb = SbWithCapacity(0) /\ nb = NbWithCapacity(0)

InitNested ==
    /\ kind = "nested"
    /\ \E s \in 0..MaxHint : nb = NbWithCapacity(s)
    /\ region = WithLimit(0) /\ maxReq = 0
    /\ sb = SbWithCapacity(0) /\ vb = VbWithCapacity(0)

Init ==
    /\ InitRegion \/ InitString \/ InitVec \/ InitNested
    /\ hist = <<>>
    /\ cleared = FALSE
    /\ strs = <<>>
    /\ seqs = <<>>
    /\ nseqs = <<>>
    /\ iters = [s \in Slots |-> NoIter]

NoneLive == \A s \in Slots : ~iters[s].live

\* ------------------------------------------------------- Region<u64> calls
SliceInputs == SeqsUpTo(Values, MaxCount)

Copy(t) ==
    /\ kind = "region"
    /\ Len(hist) + 1 <= MaxElems
    /\ region' = RegionCopy(region, t)
    /\ hist' = Append(hist, t)
    /\ maxReq' = Max(maxReq, 1)
    /\ UNCHANGED <<kind, cleared, sb, strs, vb, seqs, nb, nseqs, iters>>

CopySlice(items) ==
    /\ kind = "region"
    /\ Len(hist) + Len(items) <= MaxElems
    /\ region' = RegionCopySlice(region, items)
    /\ hist' = hist \o items
    /\ maxReq' = Max(maxReq, Len(items))
    /\ UNCHANGED <<kind, cleared, sb, strs, vb, seqs, nb, nseqs, iters>>

ReserveCall(count) ==
    /\ kind = "region"
    /\ region' = Reserve(region, count)
    /\ maxReq' = Max(maxReq, count)
    /\ UNCHANGED <<kind, hist, cleared, sb, strs, vb, seqs, nb, nseqs, iters>>

Clear ==
    /\ kind = "region"
    /\ region' = RegionClear(region)
    /\ hist' = <<>>
    /\ cleared' = TRUE
    /\ UNCHANGED <<kind, maxReq, sb, strs, vb, seqs, nb, nseqs, iters>>

\* --------------------------------------------------------- StringBuf calls
StringInputs == SeqsUpTo(Bytes, MaxBytes)

StringCopy(c) ==
    /\ kind = "string"
    /\ Len(strs) < MaxStrs
    /\ Len(Flatten(strs)) + Len(c) <= MaxBytes
    /\ sb' = SbCopy(sb, c)
    /\ strs' = Append(strs, c)
    /\ UNCHANGED <<kind, region, hist, cleared, maxReq, vb, seqs, nb, nseqs, iters>>

\* ------------------------------------------------------- VecBuf<u64> calls
VecInputs == SeqsUpTo(Values, MaxVecElems)

\* copy takes &mut self, so no IdxIter borrowed from the buffer is alive.
VecCopy(c) ==
    /\ kind = "vec"
    /\ NoneLive
    /\ Len(seqs) < MaxSeqs
    /\ Len(Flatten(seqs)) + Len(c) <= MaxVecElems
    /\ vb' = VbCopy(vb, c)
    /\ seqs' = Append(seqs, c)
    /\ UNCHANGED <<kind, region, hist, cleared, maxReq, sb, strs, nb, nseqs, iters>>

VecIdx(s, i) ==
    /\ kind = "vec"
    /\ ~iters[s].live
    /\ i < VbLen(vb)
    /\ LET it == VbIdx(vb, i)
       IN iters' = [iters EXCEPT ![s] =
              [live |-> TRUE, i |-> i, current |-> it.current, end |-> it.end,
               out |-> <<>>, done |-> FALSE]]
    /\ UNCHANGED <<kind, region, hist, cleared, maxReq, sb, strs, vb, seqs, nb, nseqs>>

VecIterNext(s) ==
    /\ kind = "vec"
    /\ iters[s].live
    /\ LET n == IterNext(vb.buf, iters[s])
       IN iters' = [iters EXCEPT ![s] =
              IF n.some THEN [n.it EXCEPT !.out = Append(@, n.item)]
              ELSE [n.it EXCEPT !.done = TRUE]]
    /\ UNCHANGED <<kind, region, hist, cleared, maxReq, sb, strs, vb, seqs, nb, nseqs>>

IterDrop(s) ==
    /\ iters[s].live
    /\ iters' = [iters EXCEPT ![s] = NoIter]
    /\ UNCHANGED <<kind, region, hist, cleared, maxReq, sb, strs, vb, seqs, nb, nseqs>>

\* -------------------------------------------------- VecBuf<Vec<u64>> calls
NestedInputs == SeqsUpTo(SeqsUpTo(Values, MaxNestElems), MaxInner)

NestedCopy(c) ==
    /\ kind = "nested"
    /\ NoneLive
    /\ Len(nseqs) < MaxOuter
    /\ Len(Flatten(nseqs)) + Len(c) <= MaxInner
    /\ Len(Flatten(Flatten(nseqs))) + Len(Flatten(c)) <= MaxNestElems
    /\ nb' = NbCopy(nb, c)
    /\ nseqs' = Append(nseqs, c)
    /\ UNCHANGED <<kind, region, hist, cleared, maxReq, sb, strs, vb, seqs, iters>>

NestedIdx(s, i) ==
    /\ kind = "nested"
    /\ ~iters[s].live
    /\ i < NbLen(nb)
    /\ LET it == NbIdx(nb, i)
       IN iters' = [iters EXCEPT ![s] =
              [live |-> TRUE, i |-> i, current |-> it.current, end |-> it.end,
               out |-> <<>>, done |-> FALSE]]
    /\ UNCHANGED <<kind, region, hist, cleared, maxReq, sb, strs, vb, seqs, nb, nseqs>>

NestedIterNext(s) ==
    /\ kind = "nested"
    /\ iters[s].live
    /\ LET n == NbIterNext(nb.buf, iters[s])
       IN iters' = [iters EXCEPT ![s] =
              IF n.some THEN [n.it EXCEPT !.out = Append(@, n.item)]
              ELSE [n.it EXCEPT !.done = TRUE]]
    /\ UNCHANGED <<kind, region, hist, cleared, maxReq, sb, strs, vb, seqs, nb, nseqs>>

\* The inputs a call is tried with: those of the buffer the behaviour builds.
For(k, S) == IF kind = k THEN S ELSE {}

\* The same for a call that takes &mut self.
ForMut(k, S) == IF kind = k /\ NoneLive THEN S ELSE {}

Next ==
    \/ \E t \in For("region", Values) : Copy(t)
    \/ \E items \in For("region", SliceInputs) : CopySlice(items)
    \/ \E count \in For("region", 0..MaxCount) : ReserveCall(count)
    \/ Clear
    \/ \E c \in For("string", StringInputs) : StringCopy(c)
    \/ \E c \in ForMut("vec", VecInputs) : VecCopy(c)
    \/ \E s \in Slots : \E i \in For("vec", Indices(VbLen(vb))) : VecIdx(s, i)
    \/ \E s \in Slots : VecIterNext(s)
    \/ \E s \in Slots : IterDrop(s)
    \/ \E c \in ForMut("nested", NestedInputs) : NestedCopy(c)
    \/ \E i \in For("nested", Indices(NbLen(nb))) : NestedIdx(1, i)
    \/ NestedIterNext(1)

Spec == Init /\ [][Next]_vars

\* ----------------------------------------------------------------- helpers
Ok(v) == [ok |-> TRUE, val |-> v]

Segments(r) == Append(r.stash, r.local)

Spare(r) == r.local.cap - Len(r.local.data)

\* Where element i lives: the allocation and the offset inside it.
Loc(r, i) == LET at == Locate(r, i) IN <<at.seg.id, at.off>>

\* A region built from with_limit(limit) by copying the values one by one.
FreshWith(limit, values) == CopyEach(WithLimit(limit), values)

NonDecreasing(offsets) ==
    \A j \in 1..(Len(offsets) - 1) : offsets[j] <= offsets[j + 1]

\* The units the i-th copy call appended, from the offsets alone.
Span(offsets, j) == offsets[j] - (IF j = 1 THEN 0 ELSE offsets[j - 1])

\* Every item an IdxIter over a Region<u64> yields until next() returns None.
RECURSIVE Collect(_, _)
Collect(r, it) ==
    LET n == IterNext(r, it)
    IN IF n.some THEN <<n.item>> \o Collect(r, n.it) ELSE <<>>

\* The same over a VecBuf<u64>, each yielded IdxIter drained in turn.
RECURSIVE CollectNested(_, _)
CollectNested(b, it) ==
    LET n == NbIterNext(b, it)
    IN IF n.some THEN <<Collect(b.buf, n.item)>> \o CollectNested(b, n.it) ELSE <<>>

IsPrefix(p, q) == Len(p) <= Len(q) /\ p = SubSeq(q, 1, Len(p))

\* ------------------------------------------------------------------ claims

\* C1: on a region that has not been cleared, idx(i) returns the i-th value
\* appended by copy / copy_slice, for every i below the number appended,
\* whatever the limit, the initial capacity and the stashed segments.
C1_RoundTrip ==
    (kind = "region" /\ ~cleared) =>
        \A i \in Indices(Len(hist)) : RegionIdx(region, i) = Ok(hist[i + 1])

C1_Witness ==
    /\ kind = "region" /\ ~cleared
    /\ Len(hist) >= 3
    /\ Len(region.stash) >= 2
    /\ \E k \in 1..Len(region.stash) :
          Len(region.stash[k].data) < region.stash[k].cap
    /\ region.local.data # <<>>

\* C2: in every step other than clear(), each element already in the region
\* keeps its allocation, its offset and its content, and every stashed
\* segment stays as it is.
C2_AddressStable ==
    [][kind = "region" =>
          \/ Clear
          \/ /\ \A i \in Indices(RegionLen(region)) :
                   /\ Loc(region', i) = Loc(region, i)
                   /\ RegionIdx(region', i) = RegionIdx(region, i)
             /\ Len(region'.stash) >= Len(region.stash)
             /\ \A k \in 1..Len(region.stash) : region'.stash[k] = region.stash[k]]_vars

C2_Witness ==
    /\ kind = "region" /\ ~cleared
    /\ Len(region.stash) >= 2
    /\ Len(region.stash[1].data) < region.stash[1].cap
    /\ region.local.data # <<>>

\* C3: after copying the strings strs into a StringBuf, len() is their number
\* and idx(i) returns exactly the bytes of the i-th, empty strings included.
C3_StringRoundTrip ==
    kind = "string" =>
        /\ SbLen(sb) = Len(strs)
        /\ \A i \in Indices(Len(strs)) : SbIdx(sb, i) = Ok(strs[i + 1])

C3_Witness ==
    /\ kind = "string"
    /\ Len(strs) >= 3
    /\ \E j \in 1..Len(strs) : strs[j] = <<>>
    /\ \E j \in 1..Len(strs) : Len(strs[j]) >= 2
    /\ sb.data.stash # <<>>

\* C4: the iterator idx(i) returns yields the elements of the i-th copied
\* sequence in order and then None, for VecBuf<u64> and VecBuf<Vec<u64>>;
\* every iterator the caller holds has yielded a prefix of its own sequence,
\* all of it once it returned None, whatever the other iterators did.
C4_VecRoundTrip ==
    /\ kind = "vec" =>
          /\ \A i \in Indices(Len(seqs)) : Collect(vb.buf, VbIdx(vb, i)) = seqs[i + 1]
          /\ \A s \in Slots : iters[s].live =>
                LET q == seqs[iters[s].i + 1]
                IN /\ IsPrefix(iters[s].out, q)
                   /\ iters[s].done => iters[s].out = q
                   /\ iters[s].out \o Collect(vb.buf, iters[s]) = q
    /\ kind = "nested" =>
          /\ \A i \in Indices(Len(nseqs)) :
                CollectNested(nb.buf, NbIdx(nb, i)) = nseqs[i + 1]
          /\ \A s \in Slots : iters[s].live =>
                LET q == nseqs[iters[s].i + 1]
                    got == [j \in 1..Len(iters[s].out) |->
                               Collect(nb.buf.buf, iters[s].out[j])]
                IN /\ IsPrefix(got, q)
                   /\ iters[s].done => got = q
                   /\ got \o CollectNested(nb.buf, iters[s]) = q

C4_Witness ==
    /\ kind = "vec"
    /\ vb.buf.stash # <<>>
    /\ \E j \in 1..Len(seqs) : seqs[j] = <<>>
    /\ iters[1].live /\ iters[2].live
    /\ iters[1].i = iters[2].i
    /\ iters[1].done /\ Len(iters[1].out) >= 2
    /\ ~iters[2].done /\ Len(iters[2].out) = 1

\* C5: len() is the number of elements appended to the region since it was
\* constructed or last cleared, and the number of copy calls for the other
\* buffers; it is 0 after construction, whatever capacity was reserved.
C5_LenAccounting ==
    /\ RegionLen(region) = Len(hist)
    /\ SbLen(sb) = Len(strs)
    /\ VbLen(vb) = Len(seqs)
    /\ NbLen(nb) = Len(nseqs)

C5_Witness ==
    /\ kind = "region" /\ cleared
    /\ Len(hist) >= 3
    /\ region.stash # <<>>
    /\ region.local.data # <<>>

\* C6: once clear() has been called, the region holds exactly the values
\* appended since the last clear, and len() and idx(i) answer as they do on
\* a region made by with_limit with the same limit and given those values.
C6_ClearResets ==
    (kind = "region" /\ cleared) =>
        LET fresh == FreshWith(region.limit, hist)
        IN /\ RegionLen(region) = Len(hist)
           /\ RegionLen(fresh) = RegionLen(region)
           /\ \A i \in Indices(Len(hist)) :
                 /\ RegionIdx(region, i) = Ok(hist[i + 1])
                 /\ RegionIdx(region, i) = RegionIdx(fresh, i)
           /\ hist = <<>> => (region.stash = <<>> /\ region.local.data = <<>>)

C6_Witness ==
    /\ kind = "region" /\ cleared
    /\ Len(hist) >= 3
    /\ Len(region.stash) >= 1
    /\ Segments(region) # Segments(FreshWith(region.limit, hist))

C8_SingleSegment ==
    kind = "string" =>
        \A i \in Indices(SbLen(sb)) :
            LET start == SbStart(sb, i)
                end == SbEnd(sb, i)
                at == Locate(sb.data, start)
            IN /\ start <= end
               /\ 0 <= at.off
               /\ at.off + (end - start) <= Len(at.seg.data)
               /\ SbIdx(sb, i).ok

C8_Witness ==
    /\ kind = "string"
    /\ Len(sb.data.stash) >= 1
    /\ \E i \in Indices(SbLen(sb)) :
          /\ SbStart(sb, i) = SbEnd(sb, i)
          /\ SbStart(sb, i) = Len(sb.data.stash[1].data)
    /\ \E i \in Indices(SbLen(sb)) :
          /\ SbEnd(sb, i) - SbStart(sb, i) >= 2
          /\ Locate(sb.data, SbStart(sb, i)).k = 2

\* A step that calls reserve(c): reserve itself, copy (c = 1) or copy_slice
\* of c items.
ReserveStep(c) ==
    \/ ReserveCall(c)
    \/ c = 1 /\ \E t \in Values : Copy(t)
    \/ \E items \in SliceInputs : Len(items) = c /\ CopySlice(items)

GrownCap(r, c) == Max(c, Min(r.limit, NextPowerOfTwo(r.local.cap + 1)))

C10_Offsets ==
    /\ NonDecreasing(sb.idx)
    /\ Len(sb.idx) = Len(strs)
    /\ sb.idx # <<>> => sb.idx[Len(sb.idx)] = RegionLen(sb.data)
    /\ \A j \in 1..Len(strs) : Span(sb.idx, j) = Len(strs[j])
    /\ NonDecreasing(vb.idx)
    /\ Len(vb.idx) = Len(seqs)
    /\ vb.idx # <<>> => vb.idx[Len(vb.idx)] = RegionLen(vb.buf)
    /\ \A j \in 1..Len(seqs) : Span(vb.idx, j) = Len(seqs[j])
    /\ NonDecreasing(nb.idx)
    /\ Len(nb.idx) = Len(nseqs)
    /\ nb.idx # <<>> => nb.idx[Len(nb.idx)] = VbLen(nb.buf)
    /\ \A j \in 1..Len(nseqs) : Span(nb.idx, j) = Len(nseqs[j])
    /\ NonDecreasing(nb.buf.idx)
    /\ nb.buf.idx # <<>> => nb.buf.idx[Len(nb.buf.idx)] = RegionLen(nb.buf.buf)

C10_Witness ==
    /\ kind = "vec"
    /\ Len(vb.idx) >= 2
    /\ vb.idx[1] = vb.idx[2]
    /\ vb.idx[1] >= 2
    /\ vb.buf.stash # <<>>

====
